---- MODULE Spec2Model ----
(***************************************************************************)
(* Valuation of game contingent claims (gcc/valuation.py and gcc/claims).  *)
(*                                                                         *)
(* Matrices keep the source's indices: rows 0..L are time steps, columns   *)
(* 0..N-1 are paths.  Payoffs are exact rationals kept as integers in      *)
(* units of 1/Unit, so that the discount factor exp(-r*j*dt) = 2^-j of the *)
(* positive rate (r*dt = ln 2) is an exact division.  Means, fitted values *)
(* and variances are fractions [num, den] with den > 0.                    *)
(***************************************************************************)
EXTENDS Integers, Sequences, FiniteSets, TLC

\* ------------------------------------------------------------------ bounds
MaxL == 3
MaxN == 2

S0    == MaxL + 1                 \* start price; paths stay >= 1
Unit  == 2 ^ (2 * (MaxL - 1))     \* payoff value 1
Moves == {-1, 1}                  \* price change of one time step
Kinds == {"callable_put", "convertible_bond", "game_put", "game_call"}
Rates == {0, 1}                   \* r = 0, and r > 0 with exp(-r*dt) = 1/2
Orders == {0, 1, 2}               \* 0: params has no "m"; else params["m"]

VARIABLES
    pc,         \* position in the call chain value -> value_gcc -> ...
    kind,       \* which gcc.claims module's value is called
    K,          \* strike / recall price
    delta,      \* penalty (gamma, the conversion ratio, for the bond)
    r,          \* element of Rates
    m,          \* element of Orders
    parallel,   \* params["parallel"] is True
    L, N,       \* S.shape = (L+1, N)
    S, X, Y,    \* the arrays
    X_in, Y_in, \* X and Y as handed to value_gcc
    sigma, tau, \* L x N stopping strategies
    j,          \* loop variable of calculate_optimal_stopping_times
    ehv,        \* its local exp_holding_value, of the step last executed
    tasks,      \* value_parallel: path indices still queued in the pool
    valuations, \* value_parallel: results of pool.map so far, by path index
    V, var,     \* the returned price and variance, as fractions
    batch,      \* a batch script: the columns of the first batch
    runs,       \* a batch script: the results of its valuations so far
    proj_type,  \* params["proj_type"], or "absent"
    n_workers,  \* params["n_workers"], or 0 when params has no such key
    poly_type,  \* the family handed to poly.lse by the last fit, or "none"
    sim,        \* the simulator a script calls
    volatility, T, theta,   \* its arguments (with N and L)
    rand_gen_state,         \* its argument, then local, rand_gen_state
    np_random,  \* the state of the process-wide generator np.random
    np_random_at_call,      \* its state when the simulator was called
    drawn,      \* the variates drawn from np.random during the call
    log_returns,            \* black_scholes: the argument of np.cumsum
    returned,   \* the tuple the call returned
    earlier,    \* the tuple an earlier call of the script returned, and the
                \* state of np.random when the script called again
    S_in,       \* the entries of S when the script passed it to value
    poly_x,     \* polynomials: the argument x of a call of *_eval_upto
    poly_out,   \* polynomials: what the call returned
    save_pc,    \* storage: each pool worker's position in save_valuation_json
    valuation_file,         \* storage: each worker's local valuation_file
    batch_dir_exists,       \* storage: os.path.exists(batch_dir)
    batch_dir_files,        \* storage: the files of batch_dir, by name
    now         \* storage: the value of datetime.now()

vars == <<pc, kind, K, delta, r, m, parallel, L, N, S, X, Y, X_in, Y_in,
          sigma, tau, j, ehv, tasks, valuations, V, var, batch, runs,
          proj_type, n_workers, poly_type, sim, volatility, T, theta,
          rand_gen_state, np_random, np_random_at_call, drawn, log_returns,
          returned, earlier,
          S_in, poly_x, poly_out, save_pc, valuation_file,
          batch_dir_exists, batch_dir_files, now>>

batchVars == <<batch, runs>>

optVars == <<proj_type, n_workers>>

simVars == <<sim, volatility, T, theta, rand_gen_state, np_random,
             np_random_at_call, drawn, log_returns, returned, earlier>>

\* what no step of a valuation or of a simulator writes: the script's
\* record of S as passed in, and the state of the other entry points
storageVars == <<save_pc, valuation_file, batch_dir_exists, batch_dir_files,
                 now>>

restVars == <<S_in, poly_x, poly_out, storageVars>>

\* ------------------------------------------------------------ arithmetic
Max(a, b) == IF a >= b THEN a ELSE b
Min(a, b) == IF a <= b THEN a ELSE b

Frac(a, b) == [num |-> a, den |-> b]
FracLt(a, b) == a.num * b.den < b.num * a.den
FracEq(a, b) == a.num * b.den = b.num * a.den
FracLe(a, b) == a.num * b.den <= b.num * a.den

RECURSIVE SumTo(_, _)
\* f[0] + ... + f[n-1]
SumTo(f, n) == IF n = 0 THEN 0 ELSE SumTo(f, n - 1) + f[n - 1]

Cols(A) == DOMAIN A[0]
NCols(A) == Cardinality(Cols(A))

NoFrac == Frac(0, 1)

\* ------------------------------------------------ gcc/claims: payoff mappers
Rows(A) == DOMAIN A
LastRow(A) == Cardinality(DOMAIN A) - 1

\* a payoff mapper without the terminal override
SetTerminalRow_skip(A, B) == A

\* X[L, :] = Y[L, :]
SetTerminalRow(A, B) == [A EXCEPT ![LastRow(A)] = B[LastRow(B)]]

\* callable_put.value: X = maximum(K - S, 0) + delta; Y = maximum(K - S, 0)
callable_put_value(s, k, d) ==
    LET Yp == [i \in Rows(s) |-> [n \in Cols(s) |-> Max(k - s[i][n], 0) * Unit]]
        Xp == [i \in Rows(s) |-> [n \in Cols(s) |-> (Max(k - s[i][n], 0) + d) * Unit]]
    IN  [X |-> SetTerminalRow(Xp, Yp), Y |-> Yp]

\* game_put_option.value: the same formulas as the callable put
game_put_option_value(s, k, d) ==
    LET Yp == [i \in Rows(s) |-> [n \in Cols(s) |-> Max(k - s[i][n], 0) * Unit]]
        Xp == [i \in Rows(s) |-> [n \in Cols(s) |-> (Max(k - s[i][n], 0) + d) * Unit]]
    IN  [X |-> SetTerminalRow(Xp, Yp), Y |-> Yp]

\* game_put_option.value with delta an (L+1) x N array (line 22)
game_put_option_value_array(s, k, d) ==
    LET Yp == [i \in Rows(s) |-> [n \in Cols(s) |-> Max(k - s[i][n], 0) * Unit]]
        Xp == [i \in Rows(s) |-> [n \in Cols(s) |->
                  (Max(k - s[i][n], 0) + d[i][n]) * Unit]]
    IN  [X |-> SetTerminalRow(Xp, Yp), Y |-> Yp]

\* game_call_option.value (imported by examples/game_call_option_example.py):
\* Y = maximum(S - K, 0); X = Y + delta; X[L] = Y[L]
game_call_option_value(s, k, d) ==
    LET Yp == [i \in Rows(s) |-> [n \in Cols(s) |-> Max(s[i][n] - k, 0) * Unit]]
        Xp == [i \in Rows(s) |-> [n \in Cols(s) |-> (Max(s[i][n] - k, 0) + d) * Unit]]
    IN  [X |-> SetTerminalRow(Xp, Yp), Y |-> Yp]

\* a bond without the floor of 1 at maturity
convertible_bond_value_nofloor(s, k, gamma) ==
    LET Y1 == [i \in Rows(s) |-> [n \in Cols(s) |-> gamma * s[i][n] * Unit]]
        X1 == [i \in Rows(s) |-> [n \in Cols(s) |-> Max(gamma * s[i][n], k) * Unit]]
    IN  [X |-> SetTerminalRow(X1, Y1), Y |-> Y1]

\* convertible_bond.value: Y = gamma*S; X = maximum(gamma*S, K);
\* Y[L, :] = maximum(gamma*S[L, :], 1); X[L, :] = Y[L, :]
convertible_bond_value(s, k, gamma) ==
    LET Y1 == [i \in Rows(s) |-> [n \in Cols(s) |-> gamma * s[i][n] * Unit]]
        X1 == [i \in Rows(s) |-> [n \in Cols(s) |-> Max(gamma * s[i][n], k) * Unit]]
        Y2 == [Y1 EXCEPT ![LastRow(s)] =
                  [n \in Cols(s) |-> Max(gamma * s[LastRow(s)][n], 1) * Unit]]
    IN  [X |-> SetTerminalRow(X1, Y2), Y |-> Y2]

claim_value(kd, s, k, d) ==
    CASE kd = "callable_put"     -> callable_put_value(s, k, d)
      [] kd = "convertible_bond" -> convertible_bond_value(s, k, d)
      [] kd = "game_put"         -> game_put_option_value(s, k, d)
      [] kd = "game_call"        -> game_call_option_value(s, k, d)

\* ------------------------------------------------------- gcc/valuation.py
\* exp(-r*j*dt)*A[j, n] for the rate rr
Discounted(a, rr, jj) == IF rr = 0 THEN a ELSE a \div (2 ^ jj)

\* a discount loop that runs through maturity: for j in range(1, L+1)
DiscountLoop_terminal(A, rr, ll) ==
    [i \in Rows(A) |->
        IF i >= 1 /\ i <= ll
        THEN [n \in Cols(A) |-> Discounted(A[i][n], rr, i)]
        ELSE A[i]]

\* lines 80-82, for j in range(1, L): A[j, :] = exp(-r*j*dt)*A[j, :], with
\* L = S.shape[0] - 1 of line 67
DiscountLoop(A, rr, ll) ==
    [i \in Rows(A) |->
        IF i >= 1 /\ i < ll
        THEN [n \in Cols(A) |-> Discounted(A[i][n], rr, i)]
        ELSE A[i]]

\* the discount loop for an array of the shape of S
DiscountRows(A, rr) == DiscountLoop(A, rr, LastRow(A))

\* R(X, Y, sigma, tau, j): the payoff X_sigma*I(sigma < tau) + Y_tau*I(tau <= sigma)
R(x, y, sg, ta, jj) ==
    [n \in Cols(x) |->
        IF sg[jj][n] < ta[jj][n] THEN x[sg[jj][n]][n] ELSE y[ta[jj][n]][n]]

\* an estimate that pools the realized payoffs of all paths
exp_holding_value_no_lse_pooled(s, x, y, sg, ta, jj) ==
    [n \in Cols(x) |-> Frac(SumTo(R(x, y, sg, ta, jj + 1), NCols(x)), NCols(x))]

\* exp_holding_value_no_lse: the realized R(sigma_{j+1}, tau_{j+1}) of each path
exp_holding_value_no_lse(s, x, y, sg, ta, jj) ==
    LET R_sigma_tau == R(x, y, sg, ta, jj + 1)
    IN  [n \in Cols(x) |-> Frac(R_sigma_tau[n], 1)]

\* exp_holding_value_lse, lines 163-167: S_j is a view of row j of S, so the
\* masking of the out-of-the-money paths writes 0 into S itself
MaskedS(s, y, jj) ==
    [s EXCEPT ![jj] = [n \in Cols(s) |-> IF y[jj][n] = 0 THEN 0 ELSE s[jj][n]]]

\* ... and into the fresh array R_sigma_tau
MaskedTarget(x, y, sg, ta, jj) ==
    LET R_sigma_tau == R(x, y, sg, ta, jj + 1)
    IN  [n \in Cols(x) |-> IF y[jj][n] = 0 THEN 0 ELSE R_sigma_tau[n]]

\* polynomials.lse for m = 2: the projection of the targets yv on the span
\* of the basis columns (1, 1 - x) evaluated at all N covariates xv.  The
\* least-squares line through the points; when all covariates agree the design
\* matrix has rank 1 and lstsq's minimum-norm solution projects on the mean.
lse(xv, yv, nn) ==
    LET sx  == SumTo(xv, nn)
        sy  == SumTo(yv, nn)
        sxx == nn * SumTo([n \in DOMAIN xv |-> xv[n] * xv[n]], nn) - sx * sx
        sxy == nn * SumTo([n \in DOMAIN xv |-> xv[n] * yv[n]], nn) - sx * sy
    IN  [n \in DOMAIN xv |->
            IF sxx = 0 THEN Frac(sy, nn)
            ELSE Frac(sy * sxx + (nn * xv[n] - sx) * sxy, nn * sxx)]

\* exp_holding_value_lse: the fitted projection lse[1]
exp_holding_value_lse(s, x, y, sg, ta, jj) ==
    lse(MaskedS(s, y, jj)[jj], MaskedTarget(x, y, sg, ta, jj), NCols(s))

\* value_single_threaded, lines 72-77: the dict lse_opts.  The order is
\* stored under "m" and the family under "proj_type".
lse_opts(mm, pt) ==
    LET keys == IF mm = 0 THEN {}
                ELSE IF pt = "absent" THEN {"m"}
                ELSE {"m", "proj_type"}
    IN  [k \in keys |-> IF k = "m" THEN mm ELSE pt]

\* exp_holding_value_lse, lines 170-173: the poly_type argument of poly.lse.
\* The family is looked up under the key "type".
lse_poly_type(opts) ==
    IF "type" \in DOMAIN opts THEN opts["type"] ELSE "laguerre"

\* polynomials.get_eval_func
get_eval_func(pt) ==
    IF pt = "hermite" THEN "hermite_eval_upto"
    ELSE IF pt = "laguerre" THEN "laguerre_eval_upto"
    ELSE "hermite_eval_upto"

\* lines 233-236 and 249: exp_holding_value_func(S, X, Y, sigma, tau, j, lse_opts)
exp_holding_value(s, x, y, sg, ta, jj, mm) ==
    IF mm = 0 THEN exp_holding_value_no_lse(s, x, y, sg, ta, jj)
    ELSE exp_holding_value_lse(s, x, y, sg, ta, jj)

\* a holder who exercises only when strictly better off
HolderExercises_strict(yv, c) == FracLt(c, Frac(yv, 1))

\* lines 259-263: the holder continues iff Y[j, n] < exp_holding_value[n]
HolderExercises(yv, c) == ~ FracLt(Frac(yv, 1), c)

\* lines 266-270: the writer terminates iff X[j, n] < exp_holding_value[n]
WriterTerminates(xv, c) == FracLt(Frac(xv, 1), c)

\* a solver without the out-of-the-money test
OutOfTheMoney_never(yv) == FALSE

\* lines 253-256: Y[j, n] == 0 is an out-of-the-money path
OutOfTheMoney(yv) == yv = 0

\* lines 251-263: row j of tau
TauRow(x, y, ta, jj, c) ==
    [n \in Cols(x) |->
        IF OutOfTheMoney(y[jj][n]) THEN ta[jj + 1][n]
        ELSE IF HolderExercises(y[jj][n], c[n]) THEN jj + 1
        ELSE ta[jj + 1][n]]

\* lines 251-256, 265-270: row j of sigma
SigmaRow(x, y, sg, jj, c) ==
    [n \in Cols(x) |->
        IF OutOfTheMoney(y[jj][n]) THEN sg[jj + 1][n]
        ELSE IF WriterTerminates(x[jj][n], c[n]) THEN jj + 1
        ELSE sg[jj + 1][n]]

\* the terminal row set to the row index instead of the stopping time
InitialStrategy_rowindex(ll, cols) ==
    [i \in 0..(ll - 1) |-> [n \in cols |-> IF i = ll - 1 THEN ll - 1 ELSE 0]]

\* lines 230-231, 244-245: np.empty, then row L-1 set to L.  The other rows
\* are written before they are read; 0 stands for their unwritten content.
InitialStrategy(ll, cols) ==
    [i \in 0..(ll - 1) |-> [n \in cols |-> IF i = ll - 1 THEN ll ELSE 0]]

RECURSIVE StoppingLoop(_, _, _, _, _, _, _)
\* lines 246-270: for j in range(L-2, -1, -1), from step jj downwards
StoppingLoop(s, x, y, mm, sg, ta, jj) ==
    IF jj < 0 THEN [sigma |-> sg, tau |-> ta]
    ELSE LET c == exp_holding_value(s, x, y, sg, ta, jj, mm)
         IN  StoppingLoop(s, x, y, mm,
                          [sg EXCEPT ![jj] = SigmaRow(x, y, sg, jj, c)],
                          [ta EXCEPT ![jj] = TauRow(x, y, ta, jj, c)],
                          jj - 1)

\* calculate_optimal_stopping_times(S, X, Y, lse_opts) as one function
calculate_optimal_stopping_times(s, x, y, mm) ==
    StoppingLoop(s, x, y, mm,
                 InitialStrategy(LastRow(s), Cols(s)),
                 InitialStrategy(LastRow(s), Cols(s)),
                 LastRow(s) - 2)

\* an aggregator that forgets the writer's time-0 cap X[0, 0]
average_gcc_prices_over_paths_nocap(x, y, sg, ta) ==
    LET nn  == NCols(y)
        Rv  == R(x, y, sg, ta, 0)
        Vn  == Max(nn * y[0][0], SumTo(Rv, nn))
        Vp  == [n \in Cols(y) |-> Min(x[0][0], Max(y[0][0], Rv[n]))]
        sq  == [n \in Cols(y) |-> (nn * Vp[n] - Vn) * (nn * Vp[n] - Vn)]
    IN  [V |-> Frac(Vn, nn), var |-> Frac(SumTo(sq, nn), nn * nn * (nn - 1))]

\* average_gcc_prices_over_paths: V and var as fractions
average_gcc_prices_over_paths(x, y, sg, ta) ==
    LET nn  == NCols(y)
        Rv  == R(x, y, sg, ta, 0)
        Vn  == Min(nn * x[0][0], Max(nn * y[0][0], SumTo(Rv, nn)))
        Vp  == [n \in Cols(y) |-> Min(x[0][0], Max(y[0][0], Rv[n]))]
        sq  == [n \in Cols(y) |-> (nn * Vp[n] - Vn) * (nn * Vp[n] - Vn)]
    IN  [V |-> Frac(Vn, nn), var |-> Frac(SumTo(sq, nn), nn * nn * (nn - 1))]

\* value_single_threaded as one function of the arrays handed in (exact
\* arithmetic): discount, solve, aggregate
value_single_threaded(s, x, y, rr, mm) ==
    LET xd == DiscountRows(x, rr)
        yd == DiscountRows(y, rr)
        st == calculate_optimal_stopping_times(s, xd, yd, mm)
    IN  average_gcc_prices_over_paths(xd, yd, st.sigma, st.tau)

RECURSIVE value_no_lse_loop(_, _, _, _)
\* value_no_lse, lines 381-390: for j_p in range(L-1, -1, -1)
value_no_lse_loop(xn, yn, jp, hv) ==
    IF jp < 0 THEN hv
    ELSE IF yn[jp] = 0 THEN value_no_lse_loop(xn, yn, jp - 1, hv)
    ELSE IF yn[jp] > hv THEN value_no_lse_loop(xn, yn, jp - 1, yn[jp])
    ELSE IF xn[jp] < hv THEN value_no_lse_loop(xn, yn, jp - 1, xn[jp])
    ELSE value_no_lse_loop(xn, yn, jp - 1, hv)

\* value_no_lse((X[:, n], Y[:, n], L, n))
value_no_lse(xn, yn, ll) == value_no_lse_loop(xn, yn, ll - 1, yn[ll])

Column(A, n) == [i \in Rows(A) |-> A[i][n]]

\* value_parallel, line 344: the path indices of the parameter list
ParallelPaths(nn) == 0..(nn - 2)

\* value_parallel, lines 353-354: np.mean and np.var of the list of valuations
MeanAndVar(vals) ==
    LET k   == Cardinality(DOMAIN vals)
        sm  == SumTo(vals, k)
        sq  == [n \in DOMAIN vals |-> (k * vals[n] - sm) * (k * vals[n] - sm)]
    IN  [V |-> Frac(sm, k), var |-> Frac(SumTo(sq, k), k * k * k)]

RECURSIVE Ascending(_)
\* the elements of a set of column indices in increasing order
Ascending(cs) ==
    IF cs = {} THEN <<>>
    ELSE LET mn == CHOOSE c \in cs : \A d \in cs : c <= d
         IN  <<mn>> \o Ascending(cs \ {mn})

\* A[:, cols]: the columns cols of A, numbered from 0
SubMatrix(A, cs) ==
    LET q == Ascending(cs)
    IN  [i \in Rows(A) |-> [n \in 0..(Len(q) - 1) |-> A[i][q[n + 1]]]]

\* ------------------------------------------------------------ the program
Strikes   == {S0, S0 + 1}          \* at the money, and one price step above
Penalties == {1}                  \* delta; gamma for the convertible bond

\* A path matrix as the simulators return it: row 0 is S0 on every path
PathMatrix(ll, nn, mv) ==
    [i \in 0..ll |-> [n \in 0..(nn - 1) |->
        S0 + SumTo([k \in 0..(ll - 1) |-> IF k < i THEN mv[k][n] ELSE 0], ll)]]

PathMatrices(ll, nn) ==
    {PathMatrix(ll, nn, mv) : mv \in [0..(ll - 1) -> [0..(nn - 1) -> Moves]]}

\* The paths of a matrix listed in non-decreasing order (of the terminal
\* price, then of the earlier ones).  The single-threaded valuation treats
\* the columns alike (row 0 is constant, sums and fits run over all columns),
\* so a permutation of the columns permutes the columns of the result.
PathCode(s, n) == SumTo([i \in 0..(LastRow(s) - 1) |-> s[i + 1][n] * (2 * S0) ^ i],
                        LastRow(s))

Ordered(s) == \A n \in Cols(s) : (n + 1) \in Cols(s) => PathCode(s, n) <= PathCode(s, n + 1)

NoMatrix == <<>>

\* rand_gen_state=None; a generator state is a number >= 0
None == 0 - 1

\* no simulator is called: S is handed to the claim's value as it is
NoSimulation ==
    /\ sim = "none"
    /\ volatility = 1 /\ T = 1 /\ theta = NoFrac
    /\ rand_gen_state = None
    /\ np_random = 0
    /\ np_random_at_call = 0
    /\ drawn = 0
    /\ log_returns = NoMatrix
    /\ returned = <<>>
    /\ earlier = <<>>

\* nothing is saved
NoStorage ==
    /\ save_pc = <<>>
    /\ valuation_file = <<>>
    /\ batch_dir_exists = FALSE
    /\ batch_dir_files = <<>>
    /\ now = 0

\* none of the other entry points is called
NoOtherCalls ==
    /\ poly_x = <<>>
    /\ poly_out = <<>>
    /\ NoStorage

InitCommon ==
    /\ pc = "value"
    /\ kind \in Kinds
    /\ K \in Strikes
    /\ delta \in Penalties
    /\ r \in Rates
    /\ L \in 1..MaxL
    /\ N \in 2..MaxN
    /\ S \in PathMatrices(L, N)
    /\ X = NoMatrix /\ Y = NoMatrix
    /\ X_in = NoMatrix /\ Y_in = NoMatrix
    /\ sigma = NoMatrix /\ tau = NoMatrix
    /\ j = 0
    /\ ehv = NoMatrix
    /\ tasks = {}
    /\ valuations = <<>>
    /\ V = NoFrac /\ var = NoFrac
    /\ batch = {} /\ runs = <<>>
    /\ poly_type = "none"
    /\ NoSimulation
    /\ NoOtherCalls
    /\ S_in = S

\* A script calls a claim's value without the parallel keyword
Init ==
    /\ InitCommon
    /\ Ordered(S)
    /\ m \in Orders
    /\ parallel = FALSE
    /\ proj_type = "absent" /\ n_workers = 0

\* ... or with parallel=True, with or without n_workers, and no m
InitParallel ==
    /\ InitCommon
    /\ m = 0
    /\ parallel = TRUE
    /\ proj_type = "absent"
    /\ n_workers \in {0, MaxN}

\* gcc.claims.<kind>.value up to its call of valuation.value_gcc(X=X, Y=Y, ...)
Value ==
    /\ pc = "value"
    /\ X' = claim_value(kind, S, K, delta).X
    /\ Y' = claim_value(kind, S, K, delta).Y
    /\ X_in' = X' /\ Y_in' = Y'
    /\ pc' = "value_gcc"
    /\ UNCHANGED <<kind, K, delta, r, m, parallel, L, N, S, sigma, tau, j, ehv,
                   tasks, valuations, V, var>>
    /\ UNCHANGED batchVars
    /\ UNCHANGED <<optVars, poly_type, simVars, restVars>>

\* value_gcc, lines 23-26
ValueGcc ==
    /\ pc = "value_gcc"
    /\ pc' = IF parallel THEN "value_parallel" ELSE "value_single_threaded"
    /\ UNCHANGED <<kind, K, delta, r, m, parallel, L, N, S, X, Y, X_in, Y_in,
                   sigma, tau, j, ehv, tasks, valuations, V, var>>
    /\ UNCHANGED batchVars
    /\ UNCHANGED <<optVars, poly_type, simVars, restVars>>

\* value_single_threaded, lines 66-82: discount the payoff processes in place
Discount ==
    /\ pc = "value_single_threaded"
    /\ X' = DiscountLoop(X, r, L)
    /\ Y' = DiscountLoop(Y, r, L)
    /\ pc' = "calculate_optimal_stopping_times"
    /\ UNCHANGED <<kind, K, delta, r, m, parallel, L, N, S, X_in, Y_in,
                   sigma, tau, j, ehv, tasks, valuations, V, var>>
    /\ UNCHANGED batchVars
    /\ UNCHANGED <<optVars, poly_type, simVars, restVars>>

\* calculate_optimal_stopping_times, lines 228-245
StoppingInit ==
    /\ pc = "calculate_optimal_stopping_times"
    /\ sigma' = InitialStrategy(L, Cols(S))
    /\ tau' = InitialStrategy(L, Cols(S))
    /\ j' = L - 2
    /\ pc' = "loop"
    /\ UNCHANGED <<kind, K, delta, r, m, parallel, L, N, S, X, Y, X_in, Y_in,
                   ehv, tasks, valuations, V, var>>
    /\ UNCHANGED batchVars
    /\ UNCHANGED <<optVars, poly_type, simVars, restVars>>

\* one iteration of the loop of lines 246-270.  With m = 1 the basis
\* evaluation asks np.empty for N x (m-2) = N x -1 entries and raises.  R
\* indexes X and Y with the stopping times; a row they lack is an IndexError.
StoppingStep ==
    /\ pc = "loop"
    /\ j >= 0
    /\ IF L \notin Rows(Y)
       THEN /\ pc' = "IndexError"
            /\ UNCHANGED <<S, sigma, tau, j, ehv, poly_type>>
       ELSE IF m = 1
       THEN /\ pc' = "ValueError"
            /\ S' = MaskedS(S, Y, j)
            /\ poly_type' = lse_poly_type(lse_opts(m, proj_type))
            /\ UNCHANGED <<sigma, tau, j, ehv>>
       ELSE /\ ehv' = exp_holding_value(S, X, Y, sigma, tau, j, m)
            /\ S' = IF m = 0 THEN S ELSE MaskedS(S, Y, j)
            /\ tau' = [tau EXCEPT ![j] = TauRow(X, Y, tau, j, ehv')]
            /\ sigma' = [sigma EXCEPT ![j] = SigmaRow(X, Y, sigma, j, ehv')]
            /\ j' = j - 1
            /\ pc' = "loop"
            /\ poly_type' = IF m = 0 THEN poly_type
                            ELSE lse_poly_type(lse_opts(m, proj_type))
    /\ UNCHANGED <<kind, K, delta, r, m, parallel, L, N, X, Y, X_in, Y_in,
                   tasks, valuations, V, var>>
    /\ UNCHANGED batchVars
    /\ UNCHANGED <<optVars, simVars, restVars>>

\* line 272 and value_single_threaded lines 84-102: return sigma, tau; average
Aggregate ==
    /\ pc = "loop"
    /\ j < 0
    /\ IF L \notin Rows(Y)
       THEN /\ pc' = "IndexError"
            /\ UNCHANGED <<V, var>>
       ELSE /\ V' = average_gcc_prices_over_paths(X, Y, sigma, tau).V
            /\ var' = average_gcc_prices_over_paths(X, Y, sigma, tau).var
            /\ pc' = "done"
    /\ UNCHANGED <<kind, K, delta, r, m, parallel, L, N, S, X, Y, X_in, Y_in,
                   sigma, tau, j, ehv, tasks, valuations>>
    /\ UNCHANGED batchVars
    /\ UNCHANGED <<optVars, poly_type, simVars, restVars>>

\* value_parallel, lines 336-350: the parameter list is handed to the pool
\* Pool(params["n_workers"]); params without the key raises KeyError
ParallelStart ==
    /\ pc = "value_parallel"
    /\ IF n_workers = 0
       THEN /\ pc' = "KeyError"
            /\ UNCHANGED <<tasks, valuations>>
       ELSE /\ tasks' = ParallelPaths(N)
            /\ valuations' = <<>>
            /\ pc' = "pool_map"
    /\ UNCHANGED <<kind, K, delta, r, m, parallel, L, N, S, X, Y, X_in, Y_in,
                   sigma, tau, j, ehv, V, var>>
    /\ UNCHANGED batchVars
    /\ UNCHANGED <<optVars, poly_type, simVars, restVars>>

\* a pool.map that drops the task of a failed worker and goes on
pool_map_raised_dropped == "pool_map"

\* line 350: pool.map raises in the caller the exception a worker raised;
\* value_parallel has no handler, so the call ends with it
pool_map_raised == "WorkerError"

\* a pool worker takes one queued path and runs value_no_lse on it (the
\* pool goes on with the queue after pool.map has raised)
Worker(n) ==
    /\ pc \in {"pool_map", "WorkerError"}
    /\ n \in tasks
    /\ tasks' = tasks \ {n}
    /\ valuations' = [i \in DOMAIN valuations \cup {n} |->
                         IF i = n THEN value_no_lse(Column(X, n), Column(Y, n), L)
                         ELSE valuations[i]]
    /\ UNCHANGED <<pc, kind, K, delta, r, m, parallel, L, N, S, X, Y, X_in, Y_in,
                   sigma, tau, j, ehv, V, var>>
    /\ UNCHANGED batchVars
    /\ UNCHANGED <<optVars, poly_type, simVars, restVars>>

\* value_parallel, lines 352-372: pool.map has returned every valuation
ParallelMerge ==
    /\ pc = "pool_map"
    /\ tasks = {}
    /\ V' = MeanAndVar(valuations).V
    /\ var' = MeanAndVar(valuations).var
    /\ pc' = "done"
    /\ UNCHANGED <<kind, K, delta, r, m, parallel, L, N, S, X, Y, X_in, Y_in,
                   sigma, tau, j, ehv, tasks, valuations>>
    /\ UNCHANGED batchVars
    /\ UNCHANGED <<optVars, poly_type, simVars, restVars>>

\* a pool worker takes one queued path and its value_no_lse call raises
WorkerFails(n) ==
    /\ pc \in {"pool_map", "WorkerError"}
    /\ n \in tasks
    /\ tasks' = tasks \ {n}
    /\ pc' = IF pc = "pool_map" THEN pool_map_raised ELSE pc
    /\ UNCHANGED <<kind, K, delta, r, m, parallel, L, N, S, X, Y, X_in, Y_in,
                   sigma, tau, j, ehv, valuations, V, var>>
    /\ UNCHANGED batchVars
    /\ UNCHANGED <<optVars, poly_type, simVars, restVars>>

\* A script calls a claim's value with parallel=True and n_workers on
\* MaxN + 1 paths, so that two paths are handed to the pool
InitPool ==
    /\ pc = "value"
    /\ kind \in Kinds
    /\ K \in Strikes
    /\ delta \in Penalties
    /\ r = 0 /\ m = 0
    /\ parallel = TRUE
    /\ proj_type = "absent" /\ n_workers = MaxN
    /\ L \in 1..(MaxL - 1)
    /\ N = MaxN + 1
    /\ S \in PathMatrices(L, N)
    /\ X = NoMatrix /\ Y = NoMatrix
    /\ X_in = NoMatrix /\ Y_in = NoMatrix
    /\ sigma = NoMatrix /\ tau = NoMatrix
    /\ j = 0
    /\ ehv = NoMatrix
    /\ tasks = {}
    /\ valuations = <<>>
    /\ V = NoFrac /\ var = NoFrac
    /\ batch = {} /\ runs = <<>>
    /\ poly_type = "none"
    /\ NoSimulation
    /\ NoOtherCalls
    /\ S_in = S

\* Strategy pairs with entries in range.  R(X, Y, sigma, tau, 0) reads row 0
\* only, so row 0 is arbitrary and the later rows hold the terminal stop.
Strategies(ll, nn) ==
    {[i \in 0..(ll - 1) |-> IF i = 0 THEN row ELSE [n \in 0..(nn - 1) |-> ll]] :
        row \in [0..(nn - 1) -> 1..ll]}

\* average_gcc_prices_over_paths called on the claim payoffs of two paths
\* with any strategy pair in range
InitAggregate ==
    /\ pc = "loop" /\ j = 0 - 1
    /\ kind \in Kinds /\ K \in Strikes /\ delta \in Penalties
    /\ r = 0 /\ m = 0 /\ parallel = FALSE
    /\ proj_type = "absent" /\ n_workers = 0
    /\ L \in 1..MaxL
    /\ N = 2
    /\ S \in PathMatrices(L, N)
    /\ X_in = claim_value(kind, S, K, delta).X
    /\ Y_in = claim_value(kind, S, K, delta).Y
    /\ X = DiscountRows(X_in, r) /\ Y = DiscountRows(Y_in, r)
    /\ sigma \in Strategies(L, N)
    /\ tau \in Strategies(L, N)
    /\ ehv = NoMatrix
    /\ tasks = {}
    /\ valuations = <<>>
    /\ V = NoFrac /\ var = NoFrac
    /\ batch = {} /\ runs = <<>>
    /\ poly_type = "none"
    /\ NoSimulation
    /\ NoOtherCalls
    /\ S_in = S

\* A batch script: exact-mode valuations of all N paths, of the columns in
\* batch (the one that holds path 0) and of the remaining columns.  A
\* variance needs two paths (N-1 is its divisor), so there are four paths
\* and each batch has two of them.
InitBatch ==
    /\ pc = "batch"
    /\ kind \in Kinds /\ K \in Strikes /\ delta \in Penalties
    /\ r \in Rates /\ m = 0 /\ parallel = FALSE
    /\ L = MaxL - 1
    /\ N = 4
    /\ S \in PathMatrices(L, N) /\ Ordered(S)
    /\ X_in = claim_value(kind, S, K, delta).X
    /\ Y_in = claim_value(kind, S, K, delta).Y
    /\ X = X_in /\ Y = Y_in
    /\ sigma = NoMatrix /\ tau = NoMatrix
    /\ j = 0
    /\ ehv = NoMatrix
    /\ tasks = {}
    /\ valuations = <<>>
    /\ V = NoFrac /\ var = NoFrac
    /\ batch \in {b \in SUBSET (0..(N - 1)) :
                    0 \in b /\ Cardinality(b) >= 2 /\ Cardinality(b) <= N - 2}
    /\ runs = <<>>
    /\ proj_type = "absent" /\ n_workers = 0
    /\ poly_type = "none"
    /\ NoSimulation
    /\ NoOtherCalls
    /\ S_in = S

BatchColumns(which) ==
    CASE which = "all" -> 0..(N - 1)
      [] which = "A"   -> batch
      [] which = "B"   -> (0..(N - 1)) \ batch

\* value_single_threaded(S[:, cols], X[:, cols], Y[:, cols], r, T) on copies
RunBatch(which) ==
    /\ pc = "batch"
    /\ which \notin DOMAIN runs
    /\ which = "A" => "all" \in DOMAIN runs
    /\ which = "B" => "A" \in DOMAIN runs
    /\ runs' = [w \in DOMAIN runs \cup {which} |->
                   IF w = which
                   THEN value_single_threaded(SubMatrix(S, BatchColumns(which)),
                                              SubMatrix(X, BatchColumns(which)),
                                              SubMatrix(Y, BatchColumns(which)), r, m)
                   ELSE runs[w]]
    /\ UNCHANGED <<pc, kind, K, delta, r, m, parallel, L, N, S, X, Y, X_in, Y_in,
                   sigma, tau, j, ehv, tasks, valuations, V, var, batch>>
    /\ UNCHANGED <<optVars, poly_type, simVars, restVars>>

\* A script names the family of the regression basis: value(..., m=m,
\* proj_type=...), or value(..., proj_type=...) without m
InitProj ==
    /\ InitCommon
    /\ Ordered(S)
    /\ r = 0
    /\ m \in {0, 2}
    /\ parallel = FALSE
    /\ proj_type \in {"hermite", "laguerre"}
    /\ n_workers = 0

\* Path matrices of three paths over three steps whose first step also
\* leaves the price where it is, so that step 1 sees three different prices
FitPathMatrices ==
    {PathMatrix(3, 3, mv) :
        mv \in {f \in [0..2 -> [0..2 -> {-1, 0, 1}]] :
                   \A k \in 1..2 : \A n \in 0..2 : f[k][n] \in Moves}}

\* A script values a claim on such paths in regression mode, value(..., m=2)
InitFit ==
    /\ pc = "value"
    /\ kind \in Kinds
    /\ K \in Strikes
    /\ delta \in Penalties
    /\ r = 0 /\ m = 2
    /\ parallel = FALSE
    /\ proj_type = "absent" /\ n_workers = 0
    /\ L = 3 /\ N = 3
    /\ S \in FitPathMatrices /\ Ordered(S)
    /\ X = NoMatrix /\ Y = NoMatrix
    /\ X_in = NoMatrix /\ Y_in = NoMatrix
    /\ sigma = NoMatrix /\ tau = NoMatrix
    /\ j = 0
    /\ ehv = NoMatrix
    /\ tasks = {}
    /\ valuations = <<>>
    /\ V = NoFrac /\ var = NoFrac
    /\ batch = {} /\ runs = <<>>
    /\ poly_type = "none"
    /\ NoSimulation
    /\ NoOtherCalls
    /\ S_in = S

\* the penalties delta and conversion ratios gamma of a call of a mapper
\* alone; the bond's floor of 1 at maturity binds for gamma = 0
MapperArgs == 0..2

\* A script calls a claim's value; the mapper is followed up to its call of
\* value_gcc
InitMapper ==
    /\ pc = "value"
    /\ kind \in Kinds
    /\ K \in Strikes
    /\ delta \in MapperArgs
    /\ r = 0 /\ m = 0
    /\ parallel = FALSE
    /\ proj_type = "absent" /\ n_workers = 0
    /\ L \in 1..MaxL
    /\ N \in 2..MaxN
    /\ S \in PathMatrices(L, N)
    /\ X = NoMatrix /\ Y = NoMatrix
    /\ X_in = NoMatrix /\ Y_in = NoMatrix
    /\ sigma = NoMatrix /\ tau = NoMatrix
    /\ j = 0
    /\ ehv = NoMatrix
    /\ tasks = {}
    /\ valuations = <<>>
    /\ V = NoFrac /\ var = NoFrac
    /\ batch = {} /\ runs = <<>>
    /\ poly_type = "none"
    /\ NoSimulation
    /\ NoOtherCalls
    /\ S_in = S

\* A script builds the payoffs of a claim and calls value_gcc on S, X, Y at
\* a positive rate, in exact or in regression mode
InitTwice ==
    /\ pc = "value_gcc"
    /\ kind \in Kinds /\ K \in Strikes /\ delta \in Penalties
    /\ r = 1 /\ m \in {0, 2} /\ parallel = FALSE
    /\ proj_type = "absent" /\ n_workers = 0
    /\ L \in 1..MaxL
    /\ N = 2
    /\ S \in PathMatrices(L, N) /\ Ordered(S)
    /\ X_in = claim_value(kind, S, K, delta).X
    /\ Y_in = claim_value(kind, S, K, delta).Y
    /\ X = X_in /\ Y = Y_in
    /\ sigma = NoMatrix /\ tau = NoMatrix
    /\ j = 0
    /\ ehv = NoMatrix
    /\ tasks = {}
    /\ valuations = <<>>
    /\ V = NoFrac /\ var = NoFrac
    /\ batch = {} /\ runs = <<>>
    /\ poly_type = "none"
    /\ NoSimulation
    /\ NoOtherCalls
    /\ S_in = S

\* the script keeps the result in runs[1] and calls value_gcc again with the
\* same arrays S, X, Y and the same r, T and options
CallAgain ==
    /\ pc = "done"
    /\ DOMAIN runs = {}
    /\ runs' = [c \in {1} |-> [V |-> V, var |-> var]]
    /\ X_in' = X /\ Y_in' = Y
    /\ sigma' = NoMatrix /\ tau' = NoMatrix
    /\ j' = 0
    /\ ehv' = NoMatrix
    /\ V' = NoFrac /\ var' = NoFrac
    /\ pc' = "value_gcc"
    /\ UNCHANGED <<kind, K, delta, r, m, parallel, L, N, S, X, Y, tasks,
                   valuations, batch>>
    /\ UNCHANGED <<optVars, poly_type, simVars, restVars>>

NextTwice ==
    \/ ValueGcc
    \/ Discount
    \/ StoppingInit
    \/ StoppingStep
    \/ Aggregate
    \/ CallAgain

\* ------------------------------------------------------ gcc/polynomials.py
MaxOrder == MaxL + 1              \* the orders m tried
Points   == (0 - 2)..2            \* the entries of x

RECURSIVE HermiteValue(_, _)
\* hermite_eval_upto, lines 62-65: entry i of the row of the point xx
HermiteValue(xx, i) ==
    IF i = 0 THEN 1
    ELSE IF i = 1 THEN xx
    ELSE xx * HermiteValue(xx, i - 1) - (i - 1) * HermiteValue(xx, i - 2)

RECURSIVE LaguerreValue(_, _)
\* laguerre_eval_upto, lines 42-46: entry i of the row of the point xx, a
\* fraction because of the factor 1.0/i
LaguerreValue(xx, i) ==
    IF i = 0 THEN Frac(1, 1)
    ELSE IF i = 1 THEN Frac(1 - xx, 1)
    ELSE LET a == LaguerreValue(xx, i - 1)
             b == LaguerreValue(xx, i - 2)
         IN  Frac((2 * i - 1 - xx) * a.num * b.den - (i - 1) * b.num * a.den,
                  i * a.den * b.den)

\* np.empty((N, m-2)) of lines 42 and 62 raises ValueError for a negative
\* dimension
EmptyRaises(mm) == mm - 2 < 0

\* hermite_eval_upto(x, m): the N x m array, entries as fractions
hermite_eval_upto(xv, mm) ==
    IF EmptyRaises(mm) THEN [error |-> "ValueError", value |-> <<>>]
    ELSE [error |-> "none",
          value |-> [n \in DOMAIN xv |-> [i \in 0..(mm - 1) |->
                        Frac(HermiteValue(xv[n], i), 1)]]]

\* laguerre_eval_upto(x, m)
laguerre_eval_upto(xv, mm) ==
    IF EmptyRaises(mm) THEN [error |-> "ValueError", value |-> <<>>]
    ELSE [error |-> "none",
          value |-> [n \in DOMAIN xv |-> [i \in 0..(mm - 1) |->
                        LaguerreValue(xv[n], i)]]]

\* the call poly_func(x, m) of the function get_eval_func returned
eval_upto(pt, xv, mm) ==
    IF get_eval_func(pt) = "hermite_eval_upto" THEN hermite_eval_upto(xv, mm)
    ELSE laguerre_eval_upto(xv, mm)

\* A script calls get_eval_func(poly_type)(x, m) with a vector x of 1..MaxN
\* points and an order m >= 1
InitBasis ==
    /\ pc = "eval_upto"
    /\ poly_type \in {"hermite", "laguerre"}
    /\ m \in 1..MaxOrder
    /\ N \in 1..MaxN
    /\ poly_x \in [0..(N - 1) -> Points]
    /\ poly_out = <<>>
    /\ L = 0 /\ S = NoMatrix /\ S_in = NoMatrix
    /\ NoStorage
    /\ kind = "none" /\ K = 0 /\ delta = 0 /\ r = 0
    /\ parallel = FALSE
    /\ proj_type = "absent" /\ n_workers = 0
    /\ X = NoMatrix /\ Y = NoMatrix
    /\ X_in = NoMatrix /\ Y_in = NoMatrix
    /\ sigma = NoMatrix /\ tau = NoMatrix
    /\ j = 0
    /\ ehv = NoMatrix
    /\ tasks = {}
    /\ valuations = <<>>
    /\ V = NoFrac /\ var = NoFrac
    /\ batch = {} /\ runs = <<>>
    /\ NoSimulation

\* hermite_eval_upto / laguerre_eval_upto, lines 41-47 and 61-66
EvalUpto ==
    /\ pc = "eval_upto"
    /\ LET out == eval_upto(poly_type, poly_x, m)
       IN  /\ poly_out' = out.value
           /\ pc' = IF out.error = "none" THEN "evaluated" ELSE out.error
    /\ UNCHANGED <<kind, K, delta, r, m, parallel, L, N, S, X, Y, X_in, Y_in,
                   sigma, tau, j, ehv, tasks, valuations, V, var>>
    /\ UNCHANGED batchVars
    /\ UNCHANGED <<optVars, poly_type, simVars, S_in, poly_x, storageVars>>

\* ---------------------------------------------------------- gcc/storage.py
Savers   == 1..MaxN               \* the pool workers of example_parallel.main
MaxClock == 2                     \* datetime.now() is in 0..MaxClock

idleVars == <<pc, kind, K, delta, r, m, parallel, L, N, S, X, Y, X_in, Y_in,
              sigma, tau, j, ehv, tasks, valuations, V, var, batch, runs,
              proj_type, n_workers, poly_type, S_in, poly_x, poly_out>>

\* example_parallel.main, lines 99-100: every pool worker has finished a
\* valuation and calls save_valuation_json(valuation, batch_dir) with the
\* same batch_dir, which does not exist yet
InitSave ==
    /\ pc = "pool_map"
    /\ save_pc = [w \in Savers |-> "save_valuation_json"]
    /\ valuation_file = [w \in Savers |-> None]
    /\ batch_dir_exists = FALSE
    /\ batch_dir_files = <<>>
    /\ now = 0
    /\ kind = "none" /\ K = 0 /\ delta = 0 /\ r = 0 /\ m = 0
    /\ parallel = FALSE
    /\ proj_type = "absent" /\ n_workers = 0
    /\ poly_type = "none"
    /\ L = 0 /\ N = 0
    /\ S = NoMatrix /\ S_in = NoMatrix
    /\ X = NoMatrix /\ Y = NoMatrix
    /\ X_in = NoMatrix /\ Y_in = NoMatrix
    /\ sigma = NoMatrix /\ tau = NoMatrix
    /\ j = 0
    /\ ehv = NoMatrix
    /\ tasks = {}
    /\ valuations = <<>>
    /\ V = NoFrac /\ var = NoFrac
    /\ batch = {} /\ runs = <<>>
    /\ poly_x = <<>> /\ poly_out = <<>>
    /\ NoSimulation

\* the clock moves on between any two steps of the workers
Tick ==
    /\ now < MaxClock
    /\ now' = now + 1
    /\ UNCHANGED <<save_pc, valuation_file, batch_dir_exists, batch_dir_files>>
    /\ UNCHANGED <<idleVars, simVars>>

\* line 141: valuation_file = str(datetime.now())... + ".json"
SaveName(w) ==
    /\ save_pc[w] = "save_valuation_json"
    /\ valuation_file' = [valuation_file EXCEPT ![w] = now]
    /\ save_pc' = [save_pc EXCEPT ![w] = "exists"]
    /\ UNCHANGED <<batch_dir_exists, batch_dir_files, now>>
    /\ UNCHANGED <<idleVars, simVars>>

\* line 143: if not os.path.exists(batch_dir)
SaveExists(w) ==
    /\ save_pc[w] = "exists"
    /\ save_pc' = [save_pc EXCEPT ![w] =
                      IF batch_dir_exists THEN "json_to_file" ELSE "makedirs"]
    /\ UNCHANGED <<valuation_file, batch_dir_exists, batch_dir_files, now>>
    /\ UNCHANGED <<idleVars, simVars>>

\* line 144: os.makedirs(batch_dir) raises OSError when the directory exists
SaveMakedirs(w) ==
    /\ save_pc[w] = "makedirs"
    /\ IF batch_dir_exists
       THEN /\ save_pc' = [save_pc EXCEPT ![w] = "OSError"]
            /\ UNCHANGED batch_dir_exists
       ELSE /\ save_pc' = [save_pc EXCEPT ![w] = "json_to_file"]
            /\ batch_dir_exists' = TRUE
    /\ UNCHANGED <<valuation_file, batch_dir_files, now>>
    /\ UNCHANGED <<idleVars, simVars>>

\* lines 146-148 and json_to_file: open(filepath, 'w') creates the file or
\* truncates the one of that name; the file holds the worker's valuation
SaveWrite(w) ==
    /\ save_pc[w] = "json_to_file"
    /\ batch_dir_files' =
          [f \in DOMAIN batch_dir_files \cup {valuation_file[w]} |->
              IF f = valuation_file[w] THEN w ELSE batch_dir_files[f]]
    /\ save_pc' = [save_pc EXCEPT ![w] = "returned"]
    /\ UNCHANGED <<valuation_file, batch_dir_exists, now>>
    /\ UNCHANGED <<idleVars, simVars>>

NextSave ==
    \/ Tick
    \/ \E w \in Savers : SaveName(w)
    \/ \E w \in Savers : SaveExists(w)
    \/ \E w \in Savers : SaveMakedirs(w)
    \/ \E w \in Savers : SaveWrite(w)

\* ----------------------------------------------- gcc/security_simulation.py
\* The generator np.random: its state is a number, every variate drawn
\* moves it on by one, and the variate drawn is a function of the state.
Bit(g) == ((g * 5 + 3) \div 4) % 2

\* np.random.normal: one standard normal variate, as its sign
NormalVariate(g) == IF Bit(g) = 1 THEN 1 ELSE 0 - 1

\* np.random.exponential: one exponential variate, in whole units
ExpVariate(g) == 1 + Bit(g + 1)

\* np.random.set_state of lines 42-43 and 90-91 that is left out
set_state_skipped(tok, g) == g

\* lines 42-43, 90-91: if rand_gen_state is not None: np.random.set_state(...)
set_state(tok, g) == IF tok # None THEN tok ELSE g

\* a simulator that accepts every path count
OddRejected_never(nn) == FALSE

\* lines 46 and 94: if N % 2 != 0
OddRejected(nn) == nn % 2 # 0

\* a simulator that repeats the variates instead of negating them:
\* hstack((eps, eps))
Eps_repeated(g, ll, nn) ==
    LET h == nn \div 2
    IN  [k \in 0..(ll - 1) |-> [n \in 0..(2 * h - 1) |->
            IF n < h THEN NormalVariate(g + k * h + n)
            ELSE NormalVariate(g + k * h + (n - h))]]

\* lines 49-50, 98-99: eps = normal(size=(L, N/2)), drawn row by row from
\* state g, then hstack((eps, -eps))
Eps(g, ll, nn) ==
    LET h == nn \div 2
    IN  [k \in 0..(ll - 1) |-> [n \in 0..(2 * h - 1) |->
            IF n < h THEN NormalVariate(g + k * h + n)
            ELSE 0 - NormalVariate(g + k * h + (n - h))]]

\* the log-return of one step, volatility*sqrt(dt)*eps, in price steps (the
\* drift is left out); dt = T/L is 0 when T is
LogReturn(vol, tt, e) == IF tt > 0 THEN vol * e ELSE 0

\* line 52: the drift (r - volatility^2/2)*dt of one step, in units of dt/2
Drift(rr, vol, tt) == IF tt > 0 THEN 2 * rr - vol * vol ELSE 0

\* line 52: the argument of np.cumsum, (r - volatility^2/2)*dt +
\* volatility*sqrt(dt)*eps.  dt and sqrt(dt) have no common unit, so an entry
\* keeps its two terms: drift in units of dt/2, noise in units of sqrt(dt).
LogReturns(eps, rr, vol, tt) ==
    [k \in DOMAIN eps |-> [n \in DOMAIN eps[k] |->
        [drift |-> Drift(rr, vol, tt), noise |-> LogReturn(vol, tt, eps[k][n])]]]

\* lines 52 and 116: vstack of the row of S0 and of S0 moved by the
\* cumulated log-returns (and the cumulated jumps J)
BuildPaths(eps, J, vol, tt, ll) ==
    [i \in 0..ll |-> [n \in DOMAIN J |->
        S0 + SumTo([k \in 0..(ll - 1) |->
                      IF k < i THEN LogReturn(vol, tt, eps[k][n]) ELSE 0], ll)
           + (IF i = 0 THEN 0 ELSE J[n][i - 1])]]

\* J = np.zeros((L, N)), one column
NoJumps(ll) == [k \in 0..(ll - 1) |-> 0]

RECURSIVE JumpWhile(_, _, _)
\* lines 111-113: while t > cum_jumps, with t = (j+1)*T/L and cum_jumps in
\* half years; st holds the generator state g, cum_jumps and J[j, n]
JumpWhile(st, t2, ll) ==
    IF t2 > st.cum * ll
    THEN JumpWhile([g   |-> st.g + 2,
                    cum |-> st.cum + ExpVariate(st.g + 1),
                    acc |-> st.acc + ExpVariate(st.g)], t2, ll)
    ELSE st

RECURSIVE JumpSteps(_, _, _, _, _)
\* lines 108-113: for j in range(L), from step jj; col is J[:, n] so far
JumpSteps(st, col, jj, ll, tt) ==
    IF jj >= ll THEN [g |-> st.g, col |-> col]
    ELSE LET w == JumpWhile(st, 2 * (jj + 1) * tt, ll)
         IN  JumpSteps(w, [col EXCEPT ![jj] = w.acc], jj + 1, ll, tt)

RECURSIVE JumpPaths(_, _, _, _, _)
\* lines 106-113: for n in range(N), from path n with generator state g
JumpPaths(g, n, nn, ll, tt) ==
    IF n >= nn THEN [g |-> g, J |-> <<>>]
    ELSE LET one  == JumpSteps([g |-> g + 1, cum |-> ExpVariate(g), acc |-> 0],
                               NoJumps(ll), 0, ll, tt)
             rest == JumpPaths(one.g, n + 1, nn, ll, tt)
         IN  [g |-> rest.g,
              J |-> [c \in n..(nn - 1) |-> IF c = n THEN one.col ELSE rest.J[c]]]

valVars == <<kind, K, delta, r, m, parallel, X, Y, X_in, Y_in, sigma, tau,
             j, ehv, tasks, valuations, V, var>>

Thetas    == {Frac(1, 2), Frac(1, 1), Frac(2, 1)}   \* theta = 1/2, 1, 2
GenStates == 0..2                                   \* states of np.random

\* A script calls a simulator: black_scholes(S0, r, volatility, T, N, L,
\* rand_gen_state) or jump_diffusion(..., theta, ...), with any arguments
InitSim ==
    /\ pc = "simulate"
    /\ sim \in {"black_scholes", "jump_diffusion"}
    /\ N \in 1..(MaxN + 2)
    /\ L \in 0..MaxL
    /\ volatility \in {0, 1}
    /\ T \in {0, 1}
    /\ theta \in (IF sim = "jump_diffusion" THEN Thetas ELSE {NoFrac})
    /\ rand_gen_state \in {None} \cup GenStates
    /\ np_random \in GenStates
    /\ np_random_at_call = np_random
    /\ drawn = 0
    /\ log_returns = NoMatrix
    /\ returned = <<>>
    /\ earlier = <<>>
    /\ S = NoMatrix
    /\ r \in Rates
    /\ kind = "none" /\ K = 0 /\ delta = 0 /\ m = 0
    /\ parallel = FALSE
    /\ proj_type = "absent" /\ n_workers = 0
    /\ poly_type = "none"
    /\ X = NoMatrix /\ Y = NoMatrix
    /\ X_in = NoMatrix /\ Y_in = NoMatrix
    /\ sigma = NoMatrix /\ tau = NoMatrix
    /\ j = 0
    /\ ehv = NoMatrix
    /\ tasks = {}
    /\ valuations = <<>>
    /\ V = NoFrac /\ var = NoFrac
    /\ batch = {} /\ runs = <<>>
    /\ NoOtherCalls
    /\ S_in = S

\* lines 42-45 and 90-93: set_state, get_state, dt
SimEnter ==
    /\ pc = "simulate"
    /\ np_random' = set_state(rand_gen_state, np_random)
    /\ rand_gen_state' = np_random'
    /\ pc' = "check"
    /\ UNCHANGED <<L, N, S, sim, volatility, T, theta, np_random_at_call, drawn,
                   log_returns, returned, earlier>>
    /\ UNCHANGED <<valVars, batchVars, optVars, poly_type, restVars>>

\* lines 46-47 and 94-95: raise "N must be divisible by 2"
SimCheck ==
    /\ pc = "check"
    /\ pc' = IF OddRejected(N) THEN "raise" ELSE "draw"
    /\ UNCHANGED <<L, N, S, simVars>>
    /\ UNCHANGED <<valVars, batchVars, optVars, poly_type, restVars>>

\* black_scholes, lines 49-53
SimBlackScholes ==
    /\ pc = "draw"
    /\ sim = "black_scholes"
    /\ LET eps == Eps(np_random, L, N)
           J   == [n \in 0..(2 * (N \div 2) - 1) |-> NoJumps(L)]
       IN  /\ log_returns' = LogReturns(eps, r, volatility, T)
           /\ S' = BuildPaths(eps, J, volatility, T, L)
           /\ np_random' = np_random + L * (N \div 2)
           /\ drawn' = drawn + L * (N \div 2)
    /\ returned' = [S |-> S', rand_gen_state |-> rand_gen_state]
    /\ pc' = "returned"
    /\ UNCHANGED <<L, N, sim, volatility, T, theta, rand_gen_state,
                   np_random_at_call, earlier>>
    /\ UNCHANGED <<valVars, batchVars, optVars, poly_type, restVars>>

\* jump_diffusion, lines 98-117.  eta/(1-theta) of line 100 divides by zero
\* when theta is 1, after the normal variates have been drawn.
SimJumpDiffusion ==
    /\ pc = "draw"
    /\ sim = "jump_diffusion"
    /\ LET eps == Eps(np_random, L, N)
           g1  == np_random + L * (N \div 2)
           jp  == JumpPaths(g1, 0, N, L, T)
       IN  IF FracEq(theta, Frac(1, 1))
           THEN /\ pc' = "ZeroDivisionError"
                /\ np_random' = g1
                /\ drawn' = drawn + (g1 - np_random)
                /\ UNCHANGED <<S, returned>>
           ELSE /\ pc' = "returned"
                /\ np_random' = jp.g
                /\ drawn' = drawn + (jp.g - np_random)
                /\ S' = BuildPaths(eps, jp.J, volatility, T, L)
                /\ returned' = [S |-> S', rand_gen_state |-> rand_gen_state]
    /\ UNCHANGED <<L, N, sim, volatility, T, theta, rand_gen_state,
                   np_random_at_call, log_returns, earlier>>
    /\ UNCHANGED <<valVars, batchVars, optVars, poly_type, restVars>>

\* the script draws k variates of its own from np.random
OtherDraws(k) ==
    /\ pc = "returned"
    /\ DOMAIN earlier = {}
    /\ np_random' = np_random + k
    /\ pc' = "between"
    /\ UNCHANGED <<L, N, S, sim, volatility, T, theta, rand_gen_state,
                   np_random_at_call, drawn, log_returns, returned, earlier>>
    /\ UNCHANGED <<valVars, batchVars, optVars, poly_type, restVars>>

\* the script calls the simulator again with the token it got back and the
\* same other arguments
Replay ==
    /\ pc \in {"returned", "between"}
    /\ DOMAIN earlier = {}
    /\ earlier' = [S |-> returned.S, rand_gen_state |-> returned.rand_gen_state,
                    np_random |-> np_random]
    /\ rand_gen_state' = returned.rand_gen_state
    /\ returned' = <<>>
    /\ S' = NoMatrix
    /\ drawn' = 0
    /\ log_returns' = NoMatrix
    /\ np_random_at_call' = np_random
    /\ pc' = "simulate"
    /\ UNCHANGED <<L, N, sim, volatility, T, theta, np_random>>
    /\ UNCHANGED <<valVars, batchVars, optVars, poly_type, restVars>>

NextSim ==
    \/ SimEnter
    \/ SimCheck
    \/ SimBlackScholes
    \/ SimJumpDiffusion
    \/ \E k \in 1..2 : OtherDraws(k)
    \/ Replay

\* A[0:L, :], the array without its last row
Truncate(A) == [i \in 0..(LastRow(A) - 1) |-> A[i]]

\* A script calls value_gcc with payoffs that have one row more, or one row
\* less, than S (S keeps at least one time step)
InitShape ==
    /\ pc = "value_gcc"
    /\ kind \in Kinds /\ K \in Strikes /\ delta \in Penalties
    /\ r \in Rates /\ m = 0 /\ parallel = FALSE
    /\ proj_type = "absent" /\ n_workers = 0
    /\ N = 2
    /\ \E big \in UNION {PathMatrices(lb, 2) : lb \in 1..MaxL} :
       \E more \in BOOLEAN :
          /\ more => LastRow(big) >= 2
          /\ S = IF more THEN Truncate(big) ELSE big
          /\ X_in = claim_value(kind, IF more THEN big ELSE Truncate(big), K, delta).X
          /\ Y_in = claim_value(kind, IF more THEN big ELSE Truncate(big), K, delta).Y
    /\ L = LastRow(S)
    /\ X = X_in /\ Y = Y_in
    /\ sigma = NoMatrix /\ tau = NoMatrix
    /\ j = 0
    /\ ehv = NoMatrix
    /\ tasks = {}
    /\ valuations = <<>>
    /\ V = NoFrac /\ var = NoFrac
    /\ batch = {} /\ runs = <<>>
    /\ poly_type = "none"
    /\ NoSimulation
    /\ NoOtherCalls
    /\ S_in = S

NextShape ==
    \/ ValueGcc
    \/ Discount
    \/ StoppingInit
    \/ StoppingStep
    \/ Aggregate

\* penalty schedules: a penalty per path, raised by q after time 0
Schedules(ll, nn) ==
    {[i \in 0..ll |-> [n \in 0..(nn - 1) |-> p[n] + (IF i >= 1 THEN q ELSE 0)]] :
        p \in [0..(nn - 1) -> {1, 2}], q \in {0, 1}}

\* A script values a game put on two paths with a penalty schedule
InitSchedule ==
    /\ pc = "value"
    /\ kind = "game_put"
    /\ K \in Strikes
    /\ r = 0 /\ m = 0 /\ parallel = FALSE
    /\ proj_type = "absent" /\ n_workers = 0
    /\ L \in 1..MaxL
    /\ N = 2
    /\ S \in PathMatrices(L, N)
    /\ delta \in Schedules(L, N)
    /\ X = NoMatrix /\ Y = NoMatrix
    /\ X_in = NoMatrix /\ Y_in = NoMatrix
    /\ sigma = NoMatrix /\ tau = NoMatrix
    /\ j = 0
    /\ ehv = NoMatrix
    /\ tasks = {}
    /\ valuations = <<>>
    /\ V = NoFrac /\ var = NoFrac
    /\ batch = {} /\ runs = <<>>
    /\ poly_type = "none"
    /\ NoSimulation
    /\ NoOtherCalls
    /\ S_in = S

\* game_put_option.value, called with an array delta, up to value_gcc
ValueSchedule ==
    /\ pc = "value"
    /\ X' = game_put_option_value_array(S, K, delta).X
    /\ Y' = game_put_option_value_array(S, K, delta).Y
    /\ X_in' = X' /\ Y_in' = Y'
    /\ pc' = "value_gcc"
    /\ UNCHANGED <<kind, K, delta, r, m, parallel, L, N, S, sigma, tau, j, ehv,
                   tasks, valuations, V, var>>
    /\ UNCHANGED batchVars
    /\ UNCHANGED <<optVars, poly_type, simVars, restVars>>

NextSchedule ==
    \/ ValueSchedule
    \/ ValueGcc
    \/ Discount
    \/ StoppingInit
    \/ StoppingStep
    \/ Aggregate

NextBatch == \E which \in {"all", "A", "B"} : RunBatch(which)

Next ==
    \/ Value
    \/ ValueGcc
    \/ Discount
    \/ StoppingInit
    \/ StoppingStep
    \/ Aggregate

NextParallel ==
    \/ Value
    \/ ValueGcc
    \/ ParallelStart
    \/ \E n \in 0..(MaxN - 1) : Worker(n)
    \/ ParallelMerge

NextPool ==
    \/ Value
    \/ ValueGcc
    \/ ParallelStart
    \/ \E n \in 0..(MaxN - 1) : Worker(n)
    \/ \E n \in 0..(MaxN - 1) : WorkerFails(n)
    \/ ParallelMerge

Spec == Init /\ [][Next]_vars

SpecPool == InitPool /\ [][NextPool]_vars

SpecFit == InitFit /\ [][Next]_vars

SpecBasis == InitBasis /\ [][EvalUpto]_vars

SpecMapper == InitMapper /\ [][Value]_vars

SpecTwice == InitTwice /\ [][NextTwice]_vars

SpecSave == InitSave /\ [][NextSave]_vars

SpecParallel == InitParallel /\ [][NextParallel]_vars

SpecAggregate == InitAggregate /\ [][Aggregate]_vars

SpecBatch == InitBatch /\ [][NextBatch]_vars

SpecProj == InitProj /\ [][Next]_vars

SpecShape == InitShape /\ [][NextShape]_vars

SpecSim == InitSim /\ [][NextSim]_vars

SpecSchedule == InitSchedule /\ [][NextSchedule]_vars

\* ------------------------------------------------------------------ claims
\* The iteration for step j+1 has run: exp_holding_value holds its estimate
StepDone == pc = "loop" /\ j + 1 <= L - 2

\* C1: after every backward step jj, on every path n with Y[jj,n] != 0 and
\* with c the continuation estimate of that step: tau[jj,n] = jj+1 exactly
\* when Y[jj,n] >= c[n] and otherwise tau[jj,n] = tau[jj+1,n]; sigma[jj,n] =
\* jj+1 exactly when X[jj,n] < c[n] and otherwise sigma[jj,n] = sigma[jj+1,n].
C1_TieBreak ==
    StepDone =>
        LET jj == j + 1 IN
        \A n \in Cols(Y) :
            Y[jj][n] # 0 =>
                /\ (tau[jj][n] = jj + 1) <=> FracLe(ehv[n], Frac(Y[jj][n], 1))
                /\ (tau[jj][n] # jj + 1) => (tau[jj][n] = tau[jj + 1][n])
                /\ (sigma[jj][n] = jj + 1) <=> FracLt(Frac(X[jj][n], 1), ehv[n])
                /\ (sigma[jj][n] # jj + 1) => (sigma[jj][n] = sigma[jj + 1][n])

\* a holder tie (Y = c, exercised) and a writer tie (X = c, continued)
C1_Witness ==
    /\ StepDone
    /\ \E n \in Cols(Y) :
          /\ Y[j + 1][n] # 0
          /\ FracEq(ehv[n], Frac(Y[j + 1][n], 1))
          /\ tau[j + 1][n] = j + 2
    /\ \E n \in Cols(Y) :
          /\ Y[j + 1][n] # 0
          /\ FracEq(ehv[n], Frac(X[j + 1][n], 1))
          /\ sigma[j + 1][n] = sigma[j + 2][n]

\* the strategies are about to be, or have been, returned
Returned == (pc = "loop" /\ j < 0) \/ pc = "done"

\* C2: the returned sigma and tau have every entry of row i in i+1..L, and
\* row L-1 equal to L on every path, in exact and in regression mode.
C2_Range ==
    (Returned /\ ~ parallel) =>
        /\ DOMAIN sigma = 0..(L - 1) /\ DOMAIN tau = 0..(L - 1)
        /\ \A i \in 0..(L - 1) : \A n \in 0..(N - 1) :
              /\ sigma[i][n] \in (i + 1)..L
              /\ tau[i][n] \in (i + 1)..L
        /\ \A n \in 0..(N - 1) : sigma[L - 1][n] = L /\ tau[L - 1][n] = L

\* a regression-mode result with an early writer stop and an early holder stop
C2_Witness ==
    /\ pc = "done" /\ m = 2 /\ L >= 3
    /\ \E n \in 0..(N - 1) : sigma[0][n] = 1
    /\ \E n \in 0..(N - 1) : tau[0][n] < L /\ tau[0][n] > 1

\* C3: a step with Y[jj,n] = 0 copies both strategies from row jj+1 whatever
\* X[jj,n] and the estimate are, so a path out of the money at every step
\* k..L-2 has sigma[k,n] = tau[k,n] = L.
C3_OutOfMoney ==
    /\ StepDone =>
          \A n \in Cols(Y) :
              Y[j + 1][n] = 0 =>
                  /\ sigma[j + 1][n] = sigma[j + 2][n]
                  /\ tau[j + 1][n] = tau[j + 2][n]
    /\ (pc = "done" /\ ~ parallel) =>
          \A n \in Cols(Y) : \A k \in 0..(L - 2) :
              (\A i \in k..(L - 2) : Y[i][n] = 0) =>
                  (sigma[k][n] = L /\ tau[k][n] = L)

\* an out-of-the-money step at which the comparison would have stopped a
\* party: the termination value is below the estimate, or the estimate is 0
C3_Witness ==
    /\ StepDone
    /\ \E n \in Cols(Y) :
          /\ Y[j + 1][n] = 0
          /\ FracLt(Frac(X[j + 1][n], 1), ehv[n])
    /\ \E n \in Cols(Y) :
          /\ Y[j + 1][n] = 0
          /\ FracLe(ehv[n], Frac(0, 1))

\* C4: for any X, Y and any strategy pair in range, the price of
\* average_gcc_prices_over_paths lies between min(X[0,0], Y[0,0]) and
\* max(X[0,0], Y[0,0]).
C4_Sandwich ==
    (pc = "done" /\ ~ parallel) =>
        /\ FracLe(Frac(Min(X[0][0], Y[0][0]), 1), V)
        /\ FracLe(V, Frac(Max(X[0][0], Y[0][0]), 1))

\* the mean realized payoff is above both time-0 payoffs and the price is
\* capped at X[0,0]
C4_Witness ==
    /\ pc = "done" /\ ~ parallel
    /\ SumTo(R(X, Y, sigma, tau, 0), N) > N * Max(X[0][0], Y[0][0])
    /\ FracEq(V, Frac(X[0][0], 1))
    /\ X[0][0] > Y[0][0]

ParallelDone == pc = "done" /\ parallel

\* C5: with no m, the parallel run returns the price and the variance that
\* the single-threaded exact run returns for the same S, X, Y, r and T.
C5_ParallelEqualsSingle ==
    ParallelDone =>
        /\ FracEq(V, value_single_threaded(S, X_in, Y_in, r, 0).V)
        /\ FracEq(var, value_single_threaded(S, X_in, Y_in, r, 0).var)

\* C6: every path index 0..N-1 is handed to one worker task and the merged
\* price is computed from N per-path valuations.
C6_AllPathsValued ==
    /\ (pc = "pool_map") => (tasks \cup DOMAIN valuations = 0..(N - 1))
    /\ ParallelDone => (DOMAIN valuations = 0..(N - 1))

\* C7: the price of a parallel run on payoffs whose time-0 rows are constant
\* lies between min(X[0,0], Y[0,0]) and max(X[0,0], Y[0,0]).
C7_ParallelSandwich ==
    ParallelDone =>
        /\ FracLe(Frac(Min(X[0][0], Y[0][0]), 1), V)
        /\ FracLe(V, Frac(Max(X[0][0], Y[0][0]), 1))

BatchDone == pc = "batch" /\ DOMAIN runs = {"all", "A", "B"}

\* the path-count-weighted mean of the prices of two batches; the price of a
\* run over n paths is a fraction of denominator n
CombinedPrice(a, b) == Frac(a.V.num + b.V.num, a.V.den + b.V.den)

\* The variance of a run over n paths is the fraction SS/(n*n*(n-1)) with
\* SS/(n*n) the sum of squared deviations.  The pooled variance of batches of
\* nA and nB paths, (SS_A + SS_B + nA*nB/(nA+nB) * (V_A - V_B)^2)/(nA+nB-1),
\* equals the variance of the whole run iff both sides below agree.
CombinedVarianceAgrees(all, a, b) ==
    LET nA == a.V.den
        nB == b.V.den
        nn == all.V.den
        dV == a.V.num * nB - b.V.num * nA
    IN  all.var.num * nA * nA * nB * nB =
            nn * (a.var.num * nn * nB * nB + b.var.num * nn * nA * nA
                  + dV * dV * nA * nB)

\* C8: the exact-mode results of two disjoint batches, recombined by weighted
\* mean and pooled variance, are the price and variance of the single run.
C8_BatchSplit ==
    BatchDone =>
        /\ FracEq(runs["all"].V, CombinedPrice(runs["A"], runs["B"]))
        /\ CombinedVarianceAgrees(runs["all"], runs["A"], runs["B"])

\* the realized payoffs R(sigma[0], tau[0]) of the single run over all paths
RealizedPayoffs ==
    LET xd == DiscountRows(X, r)
        yd == DiscountRows(Y, r)
        st == calculate_optimal_stopping_times(S, xd, yd, m)
    IN  R(xd, yd, st.sigma, st.tau, 0)

\* neither the cap X[0,0] nor the floor Y[0,0] applies to any path
NoClamp ==
    LET Rv == RealizedPayoffs
    IN  \A n \in 0..(N - 1) : Y[0][0] <= Rv[n] /\ Rv[n] <= X[0][0]

\* C8 (amended): the recombined price and variance are those of the single
\* run whenever every path's realized payoff lies in [Y[0,0], X[0,0]].
C8_BatchSplitNoClamp ==
    (BatchDone /\ NoClamp) => C8_BatchSplit

\* batches with different prices, and a positive variance of the whole
C8_Witness ==
    /\ BatchDone /\ NoClamp
    /\ ~ FracEq(runs["A"].V, runs["B"].V)
    /\ runs["all"].var.num > 0
    /\ r = 1

\* C9: in exact mode, column n of the returned sigma and tau is what the
\* solver returns for column n of X and Y alone, so it is the same for all
\* inputs that agree on column n.
C9_ColumnIndependence ==
    (Returned /\ ~ parallel /\ m = 0) =>
        \A n \in 0..(N - 1) :
            LET one == calculate_optimal_stopping_times(
                           SubMatrix(S, {n}), SubMatrix(X, {n}), SubMatrix(Y, {n}), 0)
            IN  /\ Column(sigma, n) = Column(one.sigma, 0)
                /\ Column(tau, n) = Column(one.tau, 0)

\* an exact-mode result whose columns differ, one path stopped by the writer
\* at once and another left to run past step 1
C9_Witness ==
    /\ Returned /\ ~ parallel /\ m = 0 /\ L >= 2
    /\ \E n1, n2 \in 0..(N - 1) :
          /\ sigma[0][n1] = 1
          /\ sigma[0][n2] > 1 /\ tau[0][n2] > 1

\* C10: for every claim formula the payoffs satisfy X[L,n] = Y[L,n] on every
\* path, as handed to value_gcc and as carried by the result after discounting.
C10_TerminalEquality ==
    (pc # "value" /\ ~ parallel) =>
        \A n \in 0..(N - 1) :
            /\ X_in[L][n] = Y_in[L][n]
            /\ X[L][n] = Y[L][n]

\* a finished, discounted run whose payoffs differ before maturity
C10_Witness ==
    /\ pc = "done" /\ ~ parallel /\ r = 1 /\ L >= 2
    /\ \E n \in 0..(N - 1) : X[L - 1][n] # Y[L - 1][n]
    /\ \E n \in 0..(N - 1) : X[L][n] # X_in[L - 1][n]

\* the solver has been entered
Discounted_done == pc \in {"calculate_optimal_stopping_times", "loop", "done", "ValueError"}

\* C11: value_single_threaded multiplies row j of X and of Y by exp(-r*j*dt)
\* once for each j in 1..L-1, before the solver runs, and leaves rows 0 and L
\* as they were handed in.
C11_DiscountOnce ==
    (Discounted_done /\ ~ parallel) =>
        \A i \in 0..L : \A n \in 0..(N - 1) :
            /\ X[i][n] = IF i >= 1 /\ i <= L - 1
                          THEN Discounted(X_in[i][n], r, i) ELSE X_in[i][n]
            /\ Y[i][n] = IF i >= 1 /\ i <= L - 1
                          THEN Discounted(Y_in[i][n], r, i) ELSE Y_in[i][n]

\* a finished run at a positive rate: an interior row of X and of Y is
\* smaller than handed in, rows 0 and L are positive and as handed in
C11_Witness ==
    /\ pc = "done" /\ ~ parallel /\ r = 1 /\ L >= 3
    /\ \E n \in 0..(N - 1) :
          /\ X[L - 1][n] < X_in[L - 1][n] /\ Y[L - 1][n] < Y_in[L - 1][n]
          /\ X[1][n] * 2 = X_in[1][n]
          /\ X[L][n] > 0 /\ X[L][n] = X_in[L][n]
          /\ X[0][n] > 0 /\ X[0][n] = X_in[0][n]

\* the arithmetic mean of the targets R(sigma[jj+1], tau[jj+1]) of the paths
\* in the money at step jj
InTheMoneyMean(jj) ==
    Frac(SumTo(MaskedTarget(X, Y, sigma, tau, jj), N),
         Cardinality({n \in 0..(N - 1) : Y[jj][n] # 0}))

\* C12: in regression mode with m = 1 every backward step completes and its
\* fitted continuation value is, on every path, the arithmetic mean of the
\* targets of the paths in the money at that step.
C12_ConstantBasisMean ==
    (m = 1 /\ ~ parallel) =>
        /\ pc # "ValueError"
        /\ (StepDone /\ \E n \in 0..(N - 1) : Y[j + 1][n] # 0) =>
               \A n \in 0..(N - 1) : FracEq(ehv[n], InTheMoneyMean(j + 1))

\* C13: with m and proj_type given, every fit of the run evaluates the basis
\* of the family proj_type names; with no m no fit is made.
C13_NamedFamily ==
    ~ parallel =>
        /\ (m = 0) => (poly_type = "none")
        /\ (m # 0 /\ poly_type # "none") =>
               (get_eval_func(poly_type) = get_eval_func(proj_type))

\* C14: for every claim formula and every admissible parameter choice, a
\* game-put penalty schedule included, the time-0 payoffs are the same on
\* every path: X[0,n] = X[0,0] and Y[0,n] = Y[0,0].
C14_TimeZeroConstant ==
    (pc # "value" /\ ~ parallel) =>
        \A n \in 0..(N - 1) :
            /\ X[0][n] = X[0][0]
            /\ Y[0][n] = Y[0][0]

\* C15: value_gcc hands the call to value_single_threaded unless params has
\* parallel = True and an integer n_workers; a call with parallel=True and
\* no n_workers returns the single-threaded result and does not fail.
C15_Delegation ==
    (n_workers = 0 /\ pc # "value" /\ pc # "value_gcc") =>
        /\ pc \notin {"value_parallel", "pool_map", "KeyError"}
        /\ (pc = "done") =>
               /\ FracEq(V, value_single_threaded(S, X_in, Y_in, r, m).V)
               /\ FracEq(var, value_single_threaded(S, X_in, Y_in, r, m).var)

\* C16: a call of black_scholes or jump_diffusion with an odd N ends in an
\* error with no random variate drawn and no path matrix returned.
C16_OddRejected ==
    (sim # "none" /\ N % 2 # 0) =>
        /\ pc \in {"simulate", "check", "raise"}
        /\ drawn = 0
        /\ DOMAIN S = {} /\ DOMAIN returned = {}

\* a rejected call of jump_diffusion that was given a token, with steps to
\* simulate
C16_Witness ==
    /\ pc = "raise" /\ sim = "jump_diffusion"
    /\ N = 3 /\ L >= 2 /\ T = 1 /\ volatility = 1
    /\ rand_gen_state = 2 /\ drawn = 0

\* the call is past its argument checks
SimChecked == sim # "none" /\ pc \notin {"simulate", "check"}

\* C17: jump_diffusion with theta <= 1 signals an error before any random
\* variate is drawn and returns no path matrix.
C17_ThetaRejected ==
    (SimChecked /\ sim = "jump_diffusion" /\ FracLe(theta, Frac(1, 1))) =>
        /\ pc \notin {"returned", "between"}
        /\ drawn = 0
        /\ DOMAIN S = {} /\ DOMAIN returned = {}

\* C18: a simulator call with non-positive volatility, maturity T or step
\* count L fails before any simulation step; no path matrix is produced.
C18_NonPositiveRejected ==
    (SimChecked /\ (volatility <= 0 \/ T <= 0 \/ L <= 0)) =>
        /\ pc \notin {"returned", "between"}
        /\ drawn = 0
        /\ DOMAIN S = {} /\ DOMAIN returned = {}

\* C19: value_gcc called with S, X and Y of different shapes fails at the
\* boundary, before discounting or solving, and leaves X and Y as passed in.
C19_ShapeMismatchRejected ==
    (Rows(X_in) # Rows(S) /\ pc \notin {"value_gcc", "value_single_threaded"}) =>
        /\ pc \notin {"calculate_optimal_stopping_times", "loop", "done", "IndexError"}
        /\ X = X_in /\ Y = Y_in

\* C20: a call given the token an earlier call returned, with the same other
\* arguments, returns the earlier path matrix, whatever was drawn from
\* np.random in between, and returns the token it was given.
C20_Replay ==
    (pc = "returned" /\ DOMAIN earlier # {}) =>
        /\ returned.S = earlier.S
        /\ returned.rand_gen_state = earlier.rand_gen_state

\* a replay of jump_diffusion, with jumps, after draws of the script's own
C20_Witness ==
    /\ pc = "returned" /\ DOMAIN earlier # {}
    /\ sim = "jump_diffusion" /\ N = 4 /\ L >= 2 /\ T = 1 /\ volatility = 1
    /\ drawn > L * 2 + N
    /\ earlier.np_random > earlier.rand_gen_state + drawn
    /\ \E n \in 0..(N - 1) : S[L][n] # S0

\* black_scholes has returned
BlackScholesReturned == sim = "black_scholes" /\ pc \in {"returned", "between"}

\* C21: for black_scholes with a fixed generator state and any r, volatility,
\* T, L and even N, every per-step log-return of path n + N/2 is the negation
\* of the log-return of path n: both of its terms change sign.
C21_AntitheticNegation ==
    BlackScholesReturned =>
        \A k \in 0..(L - 1) : \A n \in 0..((N \div 2) - 1) :
            /\ log_returns[k][n + (N \div 2)].drift = 0 - log_returns[k][n].drift
            /\ log_returns[k][n + (N \div 2)].noise = 0 - log_returns[k][n].noise

\* C21 (amended): the log-returns of paths n and n + N/2 have the same drift
\* (r - volatility^2/2)*dt and opposite noise, so the log-return of path
\* n + N/2 is twice the drift minus the log-return of path n; it is the
\* negation when the drift is zero.
C21_AntitheticAboutDrift ==
    BlackScholesReturned =>
        \A k \in 0..(L - 1) : \A n \in 0..((N \div 2) - 1) :
            /\ log_returns[k][n].drift = Drift(r, volatility, T)
            /\ log_returns[k][n + (N \div 2)].drift = log_returns[k][n].drift
            /\ log_returns[k][n + (N \div 2)].noise = 0 - log_returns[k][n].noise

\* four paths over several steps with a drift and noise of both signs
C21_Witness ==
    /\ BlackScholesReturned /\ pc = "returned"
    /\ N = 4 /\ L >= 2 /\ volatility = 1 /\ T = 1
    /\ log_returns[0][0].drift # 0
    /\ log_returns[0][0].noise # log_returns[0][1].noise
    /\ log_returns[1][2].noise # 0

\* the valuation of a path handed to the pool has failed
PathFailed ==
    /\ parallel /\ pc \in {"pool_map", "WorkerError", "done"}
    /\ \E n \in ParallelPaths(N) : n \notin tasks /\ n \notin DOMAIN valuations

\* C22: when the valuation of a path fails in its worker, value_parallel
\* ends with the error: it returns no result record, and no price or variance
\* is computed from the valuations of the paths that succeeded.
C22_WorkerFailureAborts ==
    PathFailed =>
        /\ pc = "WorkerError"
        /\ V = NoFrac /\ var = NoFrac

\* one path failed after the other was valued, and nothing is left queued
C22_Witness ==
    /\ PathFailed /\ pc = "WorkerError"
    /\ tasks = {}
    /\ DOMAIN valuations # {}
    /\ \E n \in DOMAIN valuations : valuations[n] > 0

\* v[cols]: the entries of a vector at the indices cs, numbered from 0
SubVector(v, cs) ==
    LET q == Ascending(cs)
    IN  [n \in 0..(Len(q) - 1) |-> v[q[n + 1]]]

\* the paths in the money at step jj
InTheMoney(jj) == {n \in 0..(N - 1) : Y[jj][n] # 0}

\* the fit of the basis on the paths in the money at step jj alone: the
\* covariates S[jj,n] and the targets R(sigma[jj+1], tau[jj+1])[n] of those
\* paths, numbered in increasing order of n
FitInTheMoneyAlone(jj) ==
    lse(SubVector(S[jj], InTheMoney(jj)),
        SubVector(R(X, Y, sigma, tau, jj + 1), InTheMoney(jj)),
        Cardinality(InTheMoney(jj)))

\* C23: after a regression step jj, the continuation estimate of every path
\* in the money at jj is the value fitted on the in-the-money paths alone;
\* the out-of-the-money paths do not change it.
C23_FitInTheMoneyOnly ==
    (StepDone /\ m = 2 /\ ~ parallel) =>
        LET jj == j + 1
            q  == Ascending(InTheMoney(jj))
        IN  \A i \in 1..Len(q) : FracEq(ehv[q[i]], FitInTheMoneyAlone(jj)[i - 1])

\* a call of an evaluation function has ended
EvalEnded == DOMAIN poly_x # {} /\ pc # "eval_upto"

\* C24: for every m >= 1 and every x, hermite_eval_upto(x, m) returns one row
\* per point and exactly m columns: column 0 is 1, column 1 is x and column
\* i >= 2 is x*column(i-1) - (i-1)*column(i-2); laguerre_eval_upto returns the
\* same shape with column 0 equal to 1 and column 1 equal to 1 - x.
C24_BasisShape ==
    EvalEnded =>
        /\ pc = "evaluated"
        /\ DOMAIN poly_out = DOMAIN poly_x
        /\ \A n \in DOMAIN poly_out :
              /\ DOMAIN poly_out[n] = 0..(m - 1)
              /\ FracEq(poly_out[n][0], Frac(1, 1))
              /\ (m >= 2 /\ poly_type = "hermite") =>
                     FracEq(poly_out[n][1], Frac(poly_x[n], 1))
              /\ (m >= 2 /\ poly_type = "laguerre") =>
                     FracEq(poly_out[n][1], Frac(1 - poly_x[n], 1))
              /\ poly_type = "hermite" =>
                     \A i \in 2..(m - 1) :
                         poly_out[n][i].num * poly_out[n][i - 1].den * poly_out[n][i - 2].den
                           = poly_out[n][i].den *
                               (poly_x[n] * poly_out[n][i - 1].num * poly_out[n][i - 2].den
                                - (i - 1) * poly_out[n][i - 2].num * poly_out[n][i - 1].den)

\* a payoff mapper has built X and Y and calls value_gcc
Mapped == pc = "value_gcc"

\* C25: the mapper output equals the documented formulas entry by entry.
\* Callable put: Y[i,n] = max(K - S[i,n], 0) for all i and X[i,n] = Y[i,n] +
\* delta for i < L.  Convertible bond: Y[i,n] = gamma*S[i,n] for i < L,
\* Y[L,n] = max(gamma*S[L,n], 1) and X[i,n] = max(gamma*S[i,n], K) for i < L.
\* Building X and Y leaves S unchanged.
C25_PayoffFormulas ==
    Mapped =>
        /\ S = S_in
        /\ kind = "callable_put" =>
              \A i \in 0..L : \A n \in 0..(N - 1) :
                  /\ Y[i][n] = Max(K - S_in[i][n], 0) * Unit
                  /\ i < L => X[i][n] = Y[i][n] + delta * Unit
        /\ kind = "convertible_bond" =>
              \A n \in 0..(N - 1) :
                  /\ Y[L][n] = Max(delta * S_in[L][n], 1) * Unit
                  /\ \A i \in 0..(L - 1) :
                        /\ Y[i][n] = delta * S_in[i][n] * Unit
                        /\ X[i][n] = Max(delta * S_in[i][n], K) * Unit

\* a bond whose floor of 1 binds at maturity and whose recall price binds
\* before it
C25_Witness ==
    /\ Mapped /\ kind = "convertible_bond" /\ L >= 2
    /\ \E n \in 0..(N - 1) :
          /\ delta * S_in[L][n] < 1 /\ Y[L][n] = Unit
          /\ X[L - 1][n] = K * Unit /\ Y[L - 1][n] < X[L - 1][n]
          /\ S_in[L][n] # S_in[L - 1][n]

\* a callable put with a penalty, in the money on one path and out of the
\* money on another
C25_WitnessPut ==
    /\ Mapped /\ kind = "callable_put" /\ delta = 2
    /\ \E n1, n2 \in 0..(N - 1) : \E i \in 0..(L - 1) :
          /\ Y[i][n1] > 0 /\ X[i][n1] = Y[i][n1] + 2 * Unit
          /\ Y[i][n2] = 0 /\ X[i][n2] = 2 * Unit

\* C26: after the step jj, on a path where the holder was made to exercise
\* (Y[jj,n] >= c[n], tau[jj,n] = jj+1) and sigma[jj,n] is not earlier, the
\* realized payoff R(X, Y, sigma, tau, jj)[n] is the compared Y[jj,n]; where
\* the writer was made to terminate (X[jj,n] < c[n], sigma[jj,n] = jj+1) and
\* sigma[jj,n] < tau[jj,n], it is the compared X[jj,n].
C26_LockedInIsCompared ==
    (StepDone /\ ~ parallel) =>
        LET jj == j + 1 IN
        \A n \in 0..(N - 1) :
            Y[jj][n] # 0 =>
                /\ (/\ HolderExercises(Y[jj][n], ehv[n])
                    /\ tau[jj][n] = jj + 1
                    /\ sigma[jj][n] >= tau[jj][n])
                       => R(X, Y, sigma, tau, jj)[n] = Y[jj][n]
                /\ (/\ WriterTerminates(X[jj][n], ehv[n])
                    /\ sigma[jj][n] = jj + 1
                    /\ sigma[jj][n] < tau[jj][n])
                       => R(X, Y, sigma, tau, jj)[n] = X[jj][n]

\* C27: S is a read-only input of the solver: when
\* calculate_optimal_stopping_times has returned, in exact and in regression
\* mode, every entry of S is the entry that was passed in, and so is the S of
\* the result of value_single_threaded.
C27_SReadOnly ==
    (Returned /\ ~ parallel) => S = S_in

\* the second of two consecutive calls has returned
SecondDone == pc = "done" /\ DOMAIN runs = {1}

\* C28: two consecutive calls of value_single_threaded with the same arrays
\* S, X, Y, the same r > 0, T and options return the same price and variance.
C28_SameAnswerTwice ==
    SecondDone =>
        /\ FracEq(V, runs[1].V)
        /\ FracEq(var, runs[1].var)

\* pool workers are saving valuations
Saving == DOMAIN save_pc # {}

\* C29: when several pool workers call save_valuation_json concurrently with
\* the same batch_dir that does not exist yet, under every interleaving no
\* call ends in an error, and when all have returned the directory holds one
\* file per call, each with the valuation of its own call.
C29_ConcurrentSaves ==
    Saving =>
        /\ \A w \in DOMAIN save_pc : save_pc[w] # "OSError"
        /\ (\A w \in DOMAIN save_pc : save_pc[w] = "returned") =>
              /\ Cardinality(DOMAIN batch_dir_files) = Cardinality(DOMAIN save_pc)
              /\ \A w \in DOMAIN save_pc : batch_dir_files[valuation_file[w]] = w

\* C30: a simulator call rejected for an odd N, with or without a token,
\* leaves the state of np.random as it was when the call was made.
C30_RejectedCallNoEffect ==
    (sim # "none" /\ pc = "raise") => np_random = np_random_at_call

====
